---- MODULE Spec2Model ----
\* News RAG chatbot proxy (app/minimal.py): the FastAPI handlers, the redis
\* lists that hold the per-session transcripts, and the upstream /generate
\* endpoint, as one state machine.  Every await of a handler is a step.
EXTENDS Integers, Sequences, FiniteSets, TLC

----------------------------------------------------------------------------
\* Bounds of the model.

\* Concurrent /chat requests in flight (request slots, reused once answered).
MaxReqs == 2
\* A /chat request is admitted only while the transcripts of the store, with
\* two entries more for every turn in flight, hold at most MaxLen entries.
MaxLen == 4
\* Seconds that pass in one step of the clock.
TickStep == 1800

Reqs == 1..MaxReqs
Sessions == {"s1", "s2"}

----------------------------------------------------------------------------
\* Program constants.

\* redis_client.expire(key, 3600)
TTL_SECONDS == 3600

\* Header(None): the X-Session-Id header is absent.
None == "None"
\* Values of the X-Session-Id header: absent, present but empty, a session id.
Headers == {None, ""} \cup Sessions

\* A redis key without expiration (TTL -1 in redis).
NoTTL == 0 - 1

\* Request bodies as sent on the wire.
BodyHello == "{\"query\": \"hello\"}"
BodyBad == "{not json"
BodyTexts == {BodyHello, BodyBad}

\* Upstream bodies as sent on the wire.
UpHi == "{\"response\": \"hi there\"}"
UpNoResponse == "{\"answer\": \"hi there\"}"
UpArray == "[\"hi there\"]"
UpBad == "<html>"
UpTexts == {UpHi, UpNoResponse, UpArray, UpBad}

\* Status codes the upstream endpoint answers with.
UpStatuses == {200, 404, 503}

\* json.loads / request.json() / response.json(): the parsed value, tagged
\* with its JSON type; "error" stands for the decoder raising.
JsonLoads(text) ==
    CASE text = BodyHello -> [type |-> "object", obj |-> [query |-> "hello"]]
      [] text = UpHi -> [type |-> "object", obj |-> [response |-> "hi there"]]
      [] text = UpNoResponse -> [type |-> "object", obj |-> [answer |-> "hi there"]]
      [] text = UpArray -> [type |-> "array"]
      [] OTHER -> [type |-> "error"]

\* DictGet as dict.get(key): the default is dropped and a missing key gives
\* None, stored as JSON null.
DictGetNoDefault(d, k, default) == IF k \in DOMAIN d THEN d[k] ELSE "null"

\* dict.get(key, default)
DictGet(d, k, default) == IF k \in DOMAIN d THEN d[k] ELSE default

\* json.dumps({"role": role, "content": content}): the stored list item.
JsonDumps(role, content) == <<"role", role, "content", content>>

\* json.loads(item_json) of a stored list item.
ItemLoads(item) == [role |-> item[2], content |-> item[4]]

\* A request slot's locals before a request arrives.
NoResponse == [status_code |-> 0, text |-> ""]
NoResult == [unset |-> TRUE]
NoReply == [op |-> "none"]

----------------------------------------------------------------------------
VARIABLES
    store,          \* redis: key chat_history:{s} -> list of JSON items (<<>>: no key)
    ttl,            \* redis: remaining seconds of the key, NoTTL when it has none
    pc,             \* per /chat request: the await it is suspended at
    x_session_id,   \* per /chat request: the X-Session-Id header
    body,           \* per /chat request: the request body text
    posts,          \* per /chat request: client.post calls issued
    response,       \* per /chat request: the upstream response received
    result,         \* per /chat request: the parsed upstream body
    appended,       \* per /chat request: the items it has rpush-ed, in order
    reply           \* the HTTP response sent by the step just taken, if any

vars == <<store, ttl, pc, x_session_id, body, posts, response, result,
          appended, reply>>

locals == <<x_session_id, body, posts, response, result, appended>>

Init ==
    /\ store = [s \in Sessions |-> <<>>]
    /\ ttl = [s \in Sessions |-> NoTTL]
    /\ pc = [r \in Reqs |-> "idle"]
    /\ x_session_id = [r \in Reqs |-> None]
    /\ body = [r \in Reqs |-> ""]
    /\ posts = [r \in Reqs |-> 0]
    /\ response = [r \in Reqs |-> NoResponse]
    /\ result = [r \in Reqs |-> NoResult]
    /\ appended = [r \in Reqs |-> <<>>]
    /\ reply = NoReply

----------------------------------------------------------------------------
\* Redis commands.

\* Rpush as LPUSH: the item goes to the head of the list.
RpushHead(s, item) == store' = [store EXCEPT ![s] = <<item>> \o @]

\* RPUSH key item: creates the key when absent; the expiration is untouched.
Rpush(s, item) == store' = [store EXCEPT ![s] = Append(@, item)]

\* Expire as EXPIRE key seconds NX: set only when the key has no expiration.
ExpireNX(s, seconds) ==
    ttl' = IF store[s] # <<>> /\ ttl[s] = NoTTL
           THEN [ttl EXCEPT ![s] = seconds] ELSE ttl

\* EXPIRE key seconds: sets the expiration of an existing key, nothing otherwise.
Expire(s, seconds) ==
    ttl' = IF store[s] # <<>> THEN [ttl EXCEPT ![s] = seconds] ELSE ttl

\* LRANGE key 0 -1: the whole list, empty when the key is absent.
Lrange(s) == store[s]

\* Delete aimed at a key name no transcript is stored under.
DeleteOtherKey(s) == UNCHANGED <<store, ttl>>

\* Delete removing every key of the store instead of the one named.
DeleteAll(s) ==
    /\ store' = [k \in Sessions |-> <<>>]
    /\ ttl' = [k \in Sessions |-> NoTTL]

\* DEL key: removes the list and its expiration; absent keys are no error.
Delete(s) ==
    /\ store' = [store EXCEPT ![s] = <<>>]
    /\ ttl' = [ttl EXCEPT ![s] = NoTTL]

----------------------------------------------------------------------------
\* How proxy_chat ends.

\* except Exception as e: raise HTTPException(status_code=500, ...).
\* HTTPException is itself an Exception, so the clause catches it too.
ExceptClause(exc, code) == 500

\* Unhandled with the HTTPException treated like any other exception.
UnhandledAll500(exc, code) == 500

\* An exception that leaves a handler outside any try block: FastAPI answers
\* an HTTPException with its status code and anything else with 500.
Unhandled(exc, code) == IF exc = "HTTPException" THEN code ELSE 500

\* The handler of request r ends: the response goes to the caller (with the
\* locals it ended with, for the record) and the slot is free again.
Answer(r, code, exc, h, b, resp, res) ==
    /\ reply' = [op |-> "chat", status |-> code, raised |-> exc,
                 x_session_id |-> h, body |-> b, posts |-> posts[r],
                 response |-> resp, result |-> res,
                 appended |-> appended[r]]
    /\ pc' = [pc EXCEPT ![r] = "idle"]
    /\ x_session_id' = [x_session_id EXCEPT ![r] = None]
    /\ body' = [body EXCEPT ![r] = ""]
    /\ posts' = [posts EXCEPT ![r] = 0]
    /\ response' = [response EXCEPT ![r] = NoResponse]
    /\ result' = [result EXCEPT ![r] = NoResult]
    /\ appended' = [appended EXCEPT ![r] = <<>>]

\* Entries set aside for the /chat turns in flight: two for each.
Pending == 2 * Cardinality({r \in Reqs : pc[r] # "idle"})

\* Entries held by the store.
Stored == Len(store["s1"]) + Len(store["s2"])

----------------------------------------------------------------------------
\* POST /chat

\* proxy_chat with the outbound call issued before the user entry is pushed.
proxy_chat_posts_first(r, h, b) ==
    /\ pc[r] = "idle"
    /\ \A q \in Reqs : q < r => pc[q] # "idle"
    /\ (h \in Sessions /\ JsonLoads(b).type # "error")
           => Stored + Pending + 2 <= MaxLen
    /\ IF h \in {None, ""}
       THEN Answer(r, Unhandled("HTTPException", 400), "HTTPException",
                   h, "", NoResponse, NoResult)
       ELSE IF JsonLoads(b).type = "error"
       THEN Answer(r, Unhandled("JSONDecodeError", 0), "JSONDecodeError",
                   h, b, NoResponse, NoResult)
       ELSE /\ pc' = [pc EXCEPT ![r] = "rpush_user"]
            /\ x_session_id' = [x_session_id EXCEPT ![r] = h]
            /\ body' = [body EXCEPT ![r] = b]
            /\ posts' = [posts EXCEPT ![r] = @ + 1]
            /\ reply' = NoReply
            /\ UNCHANGED <<response, result, appended>>
    /\ UNCHANGED <<store, ttl>>

\* Lines 41-46: the header check and the body parse.
proxy_chat(r, h, b) ==
    /\ pc[r] = "idle"
    /\ \A q \in Reqs : q < r => pc[q] # "idle"
    /\ (h \in Sessions /\ JsonLoads(b).type # "error")
           => Stored + Pending + 2 <= MaxLen
    /\ IF h \in {None, ""}
       THEN Answer(r, Unhandled("HTTPException", 400), "HTTPException",
                   h, "", NoResponse, NoResult)
       ELSE IF JsonLoads(b).type = "error"
       THEN Answer(r, Unhandled("JSONDecodeError", 0), "JSONDecodeError",
                   h, b, NoResponse, NoResult)
       ELSE /\ pc' = [pc EXCEPT ![r] = "rpush_user"]
            /\ x_session_id' = [x_session_id EXCEPT ![r] = h]
            /\ body' = [body EXCEPT ![r] = b]
            /\ reply' = NoReply
            /\ UNCHANGED <<posts, response, result, appended>>
    /\ UNCHANGED <<store, ttl>>

\* The query forwarded and stored: body.get("query", "").
Query(b) == DictGet(JsonLoads(b).obj, "query", "")

\* rpush_user in a worker that serves one request at a time while an outbound
\* call is awaited (a blocking HTTP client).
rpush_user_serialized(r) ==
    /\ pc[r] = "rpush_user"
    /\ \A q \in Reqs \ {r} : pc[q] # "post"
    /\ LET item == JsonDumps("user", Query(body[r]))
       IN /\ Rpush(x_session_id[r], item)
          /\ appended' = [appended EXCEPT ![r] = Append(@, item)]
    /\ posts' = [posts EXCEPT ![r] = @ + 1]
    /\ pc' = [pc EXCEPT ![r] = "post"]
    /\ reply' = NoReply
    /\ UNCHANGED <<ttl, x_session_id, body, response, result>>

\* rpush_user behind a per-session lock held from the user push of a turn to
\* its assistant push.
rpush_user_locked(r) ==
    /\ pc[r] = "rpush_user"
    /\ \A q \in Reqs \ {r} :
           x_session_id[q] = x_session_id[r]
               => pc[q] \notin {"post", "rpush_assistant"}
    /\ LET item == JsonDumps("user", Query(body[r]))
       IN /\ Rpush(x_session_id[r], item)
          /\ appended' = [appended EXCEPT ![r] = Append(@, item)]
    /\ posts' = [posts EXCEPT ![r] = @ + 1]
    /\ pc' = [pc EXCEPT ![r] = "post"]
    /\ reply' = NoReply
    /\ UNCHANGED <<ttl, x_session_id, body, response, result>>

\* Lines 49-59: the user entry is pushed; the handler resumes, issues the
\* outbound call and waits for its answer.
rpush_user(r) ==
    /\ pc[r] = "rpush_user"
    /\ LET item == JsonDumps("user", Query(body[r]))
       IN /\ Rpush(x_session_id[r], item)
          /\ appended' = [appended EXCEPT ![r] = Append(@, item)]
    /\ posts' = [posts EXCEPT ![r] = @ + 1]
    /\ pc' = [pc EXCEPT ![r] = "post"]
    /\ reply' = NoReply
    /\ UNCHANGED <<ttl, x_session_id, body, response, result>>

\* Line 50 raising (the store is unreachable): outside the try block.
rpush_user_error(r) ==
    /\ pc[r] = "rpush_user"
    /\ Answer(r, Unhandled("RedisError", 0), "RedisError",
              x_session_id[r], body[r], response[r], result[r])
    /\ UNCHANGED <<store, ttl>>

\* Lines 61-64: the upstream endpoint has answered.  The body is read only
\* when the status is 200.
upstream_response(r, code, text) ==
    /\ pc[r] = "post"
    /\ code # 200 => text = ""
    /\ LET resp == [status_code |-> code, text |-> text]
       IN IF code # 200
          THEN Answer(r, ExceptClause("HTTPException", code), "HTTPException",
                      x_session_id[r], body[r], resp, result[r])
          ELSE IF JsonLoads(text).type = "error"
          THEN Answer(r, ExceptClause("JSONDecodeError", 0), "JSONDecodeError",
                      x_session_id[r], body[r], resp, result[r])
          ELSE IF JsonLoads(text).type # "object"
          THEN Answer(r, ExceptClause("AttributeError", 0), "AttributeError",
                      x_session_id[r], body[r], resp, JsonLoads(text))
          ELSE /\ response' = [response EXCEPT ![r] = resp]
               /\ result' = [result EXCEPT ![r] = JsonLoads(text).obj]
               /\ pc' = [pc EXCEPT ![r] = "rpush_assistant"]
               /\ reply' = NoReply
               /\ UNCHANGED <<x_session_id, body, posts, appended>>
    /\ UNCHANGED <<store, ttl>>

\* transport_error with the user entry taken back (RPOP) before answering.
transport_error_rollback(r) ==
    /\ pc[r] = "post"
    /\ Answer(r, ExceptClause("TransportError", 0), "TransportError",
              x_session_id[r], body[r], response[r], result[r])
    /\ store' = [store EXCEPT ![x_session_id[r]] = SubSeq(@, 1, Len(@) - 1)]
    /\ UNCHANGED ttl

\* transport_error with the outbound call issued once more before giving up.
transport_error_retry(r) ==
    /\ pc[r] = "post"
    /\ IF posts[r] < 2
       THEN /\ posts' = [posts EXCEPT ![r] = @ + 1]
            /\ reply' = NoReply
            /\ UNCHANGED <<pc, x_session_id, body, response, result, appended>>
       ELSE Answer(r, ExceptClause("TransportError", 0), "TransportError",
                   x_session_id[r], body[r], response[r], result[r])
    /\ UNCHANGED <<store, ttl>>

\* Lines 55-59 raising: connection refused, timeout, any transport failure.
transport_error(r) ==
    /\ pc[r] = "post"
    /\ Answer(r, ExceptClause("TransportError", 0), "TransportError",
              x_session_id[r], body[r], response[r], result[r])
    /\ UNCHANGED <<store, ttl>>

\* rpush_assistant with the assistant entry pushed twice.
rpush_assistant_twice(r) ==
    /\ pc[r] = "rpush_assistant"
    /\ LET item == JsonDumps("assistant", DictGet(result[r], "response", ""))
       IN /\ store' = [store EXCEPT ![x_session_id[r]] =
                          Append(Append(@, item), item)]
          /\ appended' = [appended EXCEPT ![r] = Append(@, item)]
    /\ pc' = [pc EXCEPT ![r] = "expire"]
    /\ reply' = NoReply
    /\ UNCHANGED <<ttl, x_session_id, body, posts, response, result>>

\* Line 67: the assistant entry is pushed.
rpush_assistant(r) ==
    /\ pc[r] = "rpush_assistant"
    /\ LET item == JsonDumps("assistant", DictGet(result[r], "response", ""))
       IN /\ Rpush(x_session_id[r], item)
          /\ appended' = [appended EXCEPT ![r] = Append(@, item)]
    /\ pc' = [pc EXCEPT ![r] = "expire"]
    /\ reply' = NoReply
    /\ UNCHANGED <<ttl, x_session_id, body, posts, response, result>>

\* Line 67 raising.
rpush_assistant_error(r) ==
    /\ pc[r] = "rpush_assistant"
    /\ Answer(r, ExceptClause("RedisError", 0), "RedisError",
              x_session_id[r], body[r], response[r], result[r])
    /\ UNCHANGED <<store, ttl>>

\* Lines 68-70: the expiration is set and the upstream body returned.
expire(r) ==
    /\ pc[r] = "expire"
    /\ Expire(x_session_id[r], TTL_SECONDS)
    /\ Answer(r, 200, "", x_session_id[r], body[r], response[r], result[r])
    /\ UNCHANGED store

\* Line 68 raising.
expire_error(r) ==
    /\ pc[r] = "expire"
    /\ Answer(r, ExceptClause("RedisError", 0), "RedisError",
              x_session_id[r], body[r], response[r], result[r])
    /\ UNCHANGED <<store, ttl>>

----------------------------------------------------------------------------
\* The handlers with a single await.

\* create_new_session opening the transcript of the new session with a
\* system entry.
create_new_session_init(id) ==
    /\ Rpush(id, JsonDumps("system", "New session created."))
    /\ reply' = [op |-> "new", status |-> 200, raised |-> "", session_id |-> id]
    /\ UNCHANGED <<ttl, pc, locals>>

\* POST /session/new: uuid4 makes the id; the store is not touched.
create_new_session(id) ==
    /\ reply' = [op |-> "new", status |-> 200, raised |-> "", session_id |-> id]
    /\ UNCHANGED <<store, ttl, pc, locals>>

\* The acknowledgement of a successful clear request, NoReply for any other
\* response.
ClearAck(rep) ==
    IF rep.op = "clear" /\ rep.status = 200
    THEN [op |-> "clear", status |-> 200, session_id |-> rep.session_id,
          deleted |-> rep.deleted]
    ELSE NoReply

\* get_session_history answering 404 for a session without a transcript key.
get_session_history_404(s) ==
    /\ LET history_json_list == Lrange(s)
           history == [i \in 1..Len(history_json_list) |->
                          ItemLoads(history_json_list[i])]
       IN reply' = [op |-> "history",
                    status |-> IF history_json_list = <<>> THEN 404 ELSE 200,
                    raised |-> IF history_json_list = <<>>
                               THEN "HTTPException" ELSE "",
                    session_id |-> s, history |-> history,
                    after |-> ClearAck(reply)]
    /\ UNCHANGED <<store, ttl, pc, locals>>

\* get_session_history with a sliding expiration: reading renews the TTL.
get_session_history_touch(s) ==
    /\ LET history_json_list == Lrange(s)
           history == [i \in 1..Len(history_json_list) |->
                          ItemLoads(history_json_list[i])]
       IN reply' = [op |-> "history", status |-> 200, raised |-> "",
                    session_id |-> s, history |-> history,
                    after |-> ClearAck(reply)]
    /\ Expire(s, TTL_SECONDS)
    /\ UNCHANGED <<store, pc, locals>>

\* GET /chat/history/{session_id}.  For the record the response keeps the
\* acknowledgement of the clear request it comes right after, if any.
get_session_history(s) ==
    /\ LET history_json_list == Lrange(s)
           history == [i \in 1..Len(history_json_list) |->
                          ItemLoads(history_json_list[i])]
       IN reply' = [op |-> "history", status |-> 200, raised |-> "",
                    session_id |-> s, history |-> history,
                    after |-> ClearAck(reply)]
    /\ UNCHANGED <<store, ttl, pc, locals>>

\* clear_session_history answering 404 when there is no key to delete.
clear_session_history_404(s) ==
    /\ Delete(s)
    /\ reply' = [op |-> "clear",
                 status |-> IF store[s] # <<>> THEN 200 ELSE 404,
                 raised |-> IF store[s] # <<>> THEN "" ELSE "HTTPException",
                 session_id |-> s,
                 deleted |-> IF store[s] # <<>> THEN 1 ELSE 0,
                 after |-> ClearAck(reply)]
    /\ UNCHANGED <<pc, locals>>

\* POST /chat/session/{session_id}/clear.  For the record the response keeps
\* the number of keys DEL removed, which the handler drops, and the
\* acknowledgement of the clear request it comes right after, if any.
clear_session_history(s) ==
    /\ Delete(s)
    /\ reply' = [op |-> "clear", status |-> 200, raised |-> "",
                 session_id |-> s,
                 deleted |-> IF store[s] # <<>> THEN 1 ELSE 0,
                 after |-> ClearAck(reply)]
    /\ UNCHANGED <<pc, locals>>

\* Lines 77 and 84 raising: the store is unreachable, FastAPI answers 500.
store_error(op) ==
    /\ reply' = [op |-> op, status |-> Unhandled("RedisError", 0),
                 raised |-> "RedisError"]
    /\ UNCHANGED <<store, ttl, pc, locals>>

----------------------------------------------------------------------------
\* Redis expiry: TickStep seconds pass; keys whose time is up are removed.
Tick ==
    /\ \E s \in Sessions : ttl[s] # NoTTL
    /\ LET left(s) == ttl[s] - TickStep
           gone(s) == ttl[s] # NoTTL /\ left(s) <= 0
       IN /\ store' = [s \in Sessions |-> IF gone(s) THEN <<>> ELSE store[s]]
          /\ ttl' = [s \in Sessions |->
                        IF ttl[s] = NoTTL \/ gone(s) THEN NoTTL ELSE left(s)]
    /\ reply' = NoReply
    /\ UNCHANGED <<pc, locals>>

----------------------------------------------------------------------------
Next ==
    \/ \E r \in Reqs, h \in Headers, b \in BodyTexts : proxy_chat(r, h, b)
    \/ \E r \in Reqs : rpush_user(r)
    \/ \E r \in Reqs : rpush_user_error(r)
    \/ \E r \in Reqs, code \in UpStatuses, text \in UpTexts \cup {""} :
           upstream_response(r, code, text)
    \/ \E r \in Reqs : transport_error(r)
    \/ \E r \in Reqs : rpush_assistant(r)
    \/ \E r \in Reqs : rpush_assistant_error(r)
    \/ \E r \in Reqs : expire(r)
    \/ \E r \in Reqs : expire_error(r)
    \/ \E id \in Sessions : create_new_session(id)
    \/ \E s \in Sessions : get_session_history(s)
    \/ \E s \in Sessions : clear_session_history(s)
    \/ \E op \in {"history", "clear"} : store_error(op)
    \/ Tick

Spec == Init /\ [][Next]_vars

----------------------------------------------------------------------------
\* Properties.

\* The transcript entries a list of stored items decodes to.
Entries(items) == [i \in 1..Len(items) |-> ItemLoads(items[i])]

\* The query a request body carries and the response field an upstream body
\* carries, as the caller and the upstream endpoint mean them.
SentQuery(b) == IF b = BodyHello THEN "hello" ELSE ""
SentResponse(text) == IF text = UpHi THEN "hi there" ELSE ""

\* The reply in hand answers a /chat request.
ChatReply == reply.op = "chat"

\* The reply in hand answers a /chat request whose forward call did not
\* succeed: the upstream status was not 200 or the transport failed.
ForwardFailed ==
    /\ ChatReply
    /\ \/ reply.raised = "TransportError"
       \/ reply.response.status_code \notin {0, 200}

\* Request r pushes an item in this step.
Pushes(r) == Len(appended'[r]) = Len(appended[r]) + 1

\* C1: a /chat call that completes with status 200 has pushed exactly two
\* entries, the user entry with the query and then the assistant entry with
\* the upstream response field, each at the tail of its session's transcript.
C1_SuccessAppendsUserThenAssistant ==
    /\ [](ChatReply /\ reply.status = 200 =>
            Entries(reply.appended) =
                << [role |-> "user", content |-> SentQuery(reply.body)],
                   [role |-> "assistant",
                    content |-> SentResponse(reply.response.text)] >>)
    /\ [][\A r \in Reqs : Pushes(r) =>
              store' = [store EXCEPT ![x_session_id[r]] =
                           Append(@, appended'[r][Len(appended'[r])])]]_vars

\* C1 witness: a turn has been answered 200 and its two entries are the
\* whole transcript of its session.
C1_Witness ==
    /\ ChatReply /\ reply.status = 200
    /\ store[reply.x_session_id] = reply.appended
    /\ Len(reply.appended) = 2

\* C2: a /chat call whose upstream answer has a status other than 200 is
\* answered with that same status.
C2_UpstreamStatusPassedOn ==
    (ChatReply /\ reply.response.status_code \notin {0, 200})
        => reply.status = reply.response.status_code

\* C3: a /chat request whose forward call did not succeed has pushed its user
\* entry and nothing else, and the step that answers it leaves the store as
\* it is: the user entry is not taken back.
C3_ForwardFailureKeepsUserEntryOnly ==
    /\ [](ForwardFailed =>
            Entries(reply.appended) =
                << [role |-> "user", content |-> SentQuery(reply.body)] >>)
    /\ [][ForwardFailed' => store' = store /\ ttl' = ttl]_vars

\* C3 witness: a forward call has failed and the user entry of that request
\* is in its session's transcript with no assistant entry after it.
C3_Witness ==
    /\ ForwardFailed
    /\ store[reply.x_session_id] = reply.appended
    /\ Len(reply.appended) = 1

\* C4: a /chat request without the X-Session-Id header is answered 400, has
\* pushed nothing and issued no outbound call, and leaves the store as it is.
C4_MissingHeaderIs400AndNoAppend ==
    /\ [](ChatReply /\ reply.x_session_id = None =>
            reply.status = 400 /\ reply.appended = <<>> /\ reply.posts = 0)
    /\ [][(ChatReply /\ reply.x_session_id = None)' =>
              store' = store /\ ttl' = ttl]_vars

\* C4 witness: a request without the header has been answered while a
\* transcript exists in the store.
C4_Witness ==
    /\ ChatReply /\ reply.x_session_id = None
    /\ \E s \in Sessions : store[s] # <<>>

\* C5: a /chat request answered with an error has pushed no assistant entry.
C5_ErrorMeansNoAssistantEntry ==
    (ChatReply /\ reply.status # 200) =>
        \A i \in 1..Len(reply.appended) :
            Entries(reply.appended)[i].role # "assistant"

\* C6: a get_history request that comes right after a successful clear of the
\* same session returns an empty history.
C6_ClearThenHistoryIsEmpty ==
    [][(/\ reply.op = "clear" /\ reply.status = 200
        /\ reply'.op = "history" /\ reply'.status = 200
        /\ reply'.session_id = reply.session_id)
           => reply'.history = <<>>]_vars

\* C6 witness: a history has been returned right after a clear that removed
\* an existing transcript of the same session.
C6_Witness ==
    /\ reply.op = "history" /\ reply.status = 200
    /\ reply.after.op = "clear" /\ reply.after.status = 200
    /\ reply.after.session_id = reply.session_id
    /\ reply.after.deleted = 1
    /\ reply.history = <<>>

\* C7: the step that completes a successful /chat turn, after the assistant
\* push, leaves the transcript key of the session with an expiration of
\* exactly 3600 seconds, whatever expiration the key had before the step.
C7_SuccessResetsTtlTo3600 ==
    [][\A r \in Reqs :
          (/\ pc[r] = "expire" /\ pc'[r] = "idle"
           /\ reply'.status = 200
           /\ store[x_session_id[r]] # <<>>)
              => ttl'[x_session_id[r]] = 3600]_vars

\* C7 witness: a turn has just been answered 200 and the key of its session
\* holds both of its entries after those of an earlier turn, with 3600 s left.
C7_Witness ==
    /\ ChatReply /\ reply.status = 200
    /\ Len(store[reply.x_session_id]) = 4
    /\ SubSeq(store[reply.x_session_id], 3, 4) = reply.appended
    /\ ttl[reply.x_session_id] = 3600

\* C8: a /chat request issues at most one outbound call; when the call fails
\* in transport the request is answered 500 after that single call.
C8_AtMostOneOutboundCall ==
    /\ \A r \in Reqs : posts[r] <= 1
    /\ ChatReply => reply.posts <= 1
    /\ (ChatReply /\ reply.raised = "TransportError")
           => reply.status = 500 /\ reply.posts = 1

\* C8 witness: a request has been answered after a transport failure.
C8_Witness == ChatReply /\ reply.raised = "TransportError"

\* C9: no per-session mutual exclusion: while one /chat request of a session
\* is between its user push and its assistant push, any other request of the
\* same session that is waiting to push can push.
C9_NoPerSessionExclusion ==
    \A r \in Reqs, q \in Reqs :
        (/\ r # q
         /\ x_session_id[r] = x_session_id[q]
         /\ pc[r] \in {"post", "rpush_assistant"})
            => /\ pc[q] = "rpush_user" => ENABLED rpush_user(q)
               /\ pc[q] = "rpush_assistant" => ENABLED rpush_assistant(q)

\* C9 witness: the transcript of one session holds the entries of two
\* concurrent turns as user, user, assistant of the second, assistant of the
\* first.
C9_Witness ==
    \E r \in Reqs, q \in Reqs :
        /\ r # q
        /\ pc[r] = "expire" /\ pc[q] = "expire"
        /\ x_session_id[r] = x_session_id[q]
        /\ appended[r][2] # appended[q][2]
        /\ store[x_session_id[r]] =
               <<appended[r][1], appended[q][1], appended[q][2], appended[r][2]>>

\* C10: get_history on a session without a transcript key answers 200 with
\* the session id and an empty history; the absent key is no error.
C10_AbsentKeyGivesEmptyHistory ==
    (/\ reply.op = "history"
     /\ reply.raised # "RedisError"
     /\ store[reply.session_id] = <<>>)
        => reply.status = 200 /\ reply.history = <<>>

\* C10 witness: a history has been returned for a session without a key.
C10_Witness ==
    /\ reply.op = "history" /\ reply.status = 200
    /\ store[reply.session_id] = <<>>

\* C11: a clear request that comes right after a successful clear of the same
\* session is answered 200 as well and leaves the store as the first clear
\* left it, with no key for the session.
C11_ClearTwiceIsIdempotent ==
    [][(/\ reply.op = "clear" /\ reply.status = 200
        /\ reply'.op = "clear" /\ reply'.raised # "RedisError"
        /\ reply'.session_id = reply.session_id)
           => /\ reply'.status = 200
              /\ store' = store /\ ttl' = ttl
              /\ store'[reply.session_id] = <<>>
              /\ ttl'[reply.session_id] = NoTTL]_vars

\* C11 witness: a session has been cleared twice in a row; the first clear
\* removed its key and the second found none.
C11_Witness ==
    /\ reply.op = "clear" /\ reply.status = 200
    /\ reply.after.op = "clear"
    /\ reply.after.session_id = reply.session_id
    /\ reply.after.deleted = 1
    /\ reply.deleted = 0

\* C12: a request on one session never blocks a request on another: whatever
\* await a /chat request on session A is suspended at, every /chat request in
\* flight on another session B can take its next step, and get_history and
\* clear_history on B can run.
C12_OtherSessionsNeverBlocked ==
    \A a \in Reqs, b \in Reqs :
        (/\ a # b
         /\ pc[a] # "idle" /\ pc[b] # "idle"
         /\ x_session_id[a] # x_session_id[b])
            => /\ pc[b] = "rpush_user" => ENABLED rpush_user(b)
               /\ pc[b] = "post" =>
                      /\ ENABLED upstream_response(b, 200, UpHi)
                      /\ ENABLED upstream_response(b, 503, "")
                      /\ ENABLED transport_error(b)
               /\ pc[b] = "rpush_assistant" => ENABLED rpush_assistant(b)
               /\ pc[b] = "expire" => ENABLED expire(b)
               /\ ENABLED get_session_history(x_session_id[b])
               /\ ENABLED clear_session_history(x_session_id[b])

\* C12 witness: a request on one session has reached its last await while a
\* request admitted before it on another session still waits for the
\* upstream answer.
C12_Witness ==
    \E a \in Reqs, b \in Reqs :
        /\ a < b
        /\ x_session_id[a] # x_session_id[b]
        /\ pc[a] = "post" /\ pc[b] = "expire"

\* C13: create_session changes no transcript and no expiration, and a key
\* that comes into existence does so by a push of a /chat request on that
\* session whose first push is its user entry.
C13_CreateSessionTouchesNoKey ==
    /\ [][reply'.op = "new" => store' = store /\ ttl' = ttl]_vars
    /\ [][\A s \in Sessions :
              (store[s] = <<>> /\ store'[s] # <<>>) =>
                  \E r \in Reqs :
                      /\ x_session_id[r] = s
                      /\ Pushes(r)
                      /\ store'[s] = <<appended'[r][Len(appended'[r])]>>
                      /\ Entries(appended'[r])[1].role = "user"]_vars

\* C13 witness: a session id has just been issued and has no key, while the
\* key of another session was created by the user push of its first turn.
C13_Witness ==
    /\ reply.op = "new"
    /\ store[reply.session_id] = <<>>
    /\ \E r \in Reqs :
           /\ pc[r] = "post"
           /\ store[x_session_id[r]] = appended[r]

\* The JSON object an upstream body carries, as the upstream endpoint means it.
SentBody(text) ==
    IF text = UpHi THEN [response |-> "hi there"]
    ELSE IF text = UpNoResponse THEN [answer |-> "hi there"]
    ELSE NoResult

\* C14: a /chat call answered 200 returns the upstream JSON body as it was
\* sent, and the content of the assistant entry it pushed is that body's
\* response field, the empty string when the body has none.
C14_SuccessReturnsUpstreamBody ==
    (ChatReply /\ reply.status = 200) =>
        /\ reply.result = SentBody(reply.response.text)
        /\ reply.result # NoResult
        /\ Len(reply.appended) = 2
        /\ Entries(reply.appended)[2] =
               [role |-> "assistant",
                content |-> SentResponse(reply.response.text)]

\* C14 witness: a turn has been answered 200 with an upstream body that has
\* no response field, and its assistant entry has the empty content.
C14_Witness ==
    /\ ChatReply /\ reply.status = 200
    /\ reply.response.text = UpNoResponse
    /\ reply.result = [answer |-> "hi there"]
    /\ Entries(reply.appended)[2].content = ""

\* What C15 says of one request, given the calls it has issued, the items it
\* has pushed and the upstream response it holds.
PushesInOrder(calls, items, resp) ==
    /\ calls >= 1 =>
           Len(items) >= 1 /\ Entries(items)[1].role = "user"
    /\ Len(items) >= 2 =>
           /\ Len(items) = 2
           /\ Entries(items)[2].role = "assistant"
           /\ calls = 1
           /\ resp.status_code = 200

\* C15: a /chat request has pushed its user entry whenever it has issued its
\* outbound call, and has pushed its assistant entry only with the status 200
\* answer of that call in hand.
C15_UserPushBeforeOutboundCall ==
    /\ \A r \in Reqs : PushesInOrder(posts[r], appended[r], response[r])
    /\ ChatReply => PushesInOrder(reply.posts, reply.appended, reply.response)

\* C15 witness: a request holds the 200 answer of its one outbound call and
\* has pushed the user entry and then the assistant entry.
C15_Witness ==
    \E r \in Reqs :
        /\ pc[r] = "expire"
        /\ posts[r] = 1
        /\ response[r].status_code = 200
        /\ Len(appended[r]) = 2

\* C16: get_history is read-only: the step that answers it changes no
\* transcript and no key's remaining TTL.
C16_HistoryIsReadOnly ==
    [][reply'.op = "history" => store' = store /\ ttl' = ttl]_vars

\* C16 witness: the history of a session has been returned while its key
\* has a partly elapsed TTL.
C16_Witness ==
    /\ reply.op = "history" /\ reply.status = 200
    /\ reply.history # <<>>
    /\ ttl[reply.session_id] # NoTTL
    /\ ttl[reply.session_id] < 3600

\* The number of entries with the given role among the first n items.
RoleCount(items, role, n) ==
    Cardinality({i \in 1..n : ItemLoads(items[i]).role = role})

\* No prefix of the transcript holds more assistant than user entries: every
\* assistant entry has a user entry of its own before it.
Balanced(items) ==
    \A n \in 1..Len(items) :
        RoleCount(items, "assistant", n) <= RoleCount(items, "user", n)

\* The /chat requests of session s that have pushed their user entry and may
\* still push their assistant entry.
Owed(s) ==
    Cardinality({r \in Reqs : x_session_id[r] = s
                                /\ pc[r] \in {"post", "rpush_assistant"}})

\* The transcript of s is balanced and holds an unanswered user entry for
\* every request that may still push its assistant entry.
WellFormed(s) ==
    /\ Balanced(store[s])
    /\ RoleCount(store[s], "user", Len(store[s]))
           - RoleCount(store[s], "assistant", Len(store[s])) >= Owed(s)

\* The first list is a prefix of the second.
IsPrefix(old, new) ==
    Len(old) <= Len(new) /\ SubSeq(new, 1, Len(old)) = old

\* C17 as claimed: in every reachable state each transcript holds, in every
\* prefix, no more assistant entries than user entries.
C17_TranscriptsAlwaysBalanced ==
    \A s \in Sessions : Balanced(store[s])

\* C17 as amended: every request pushes its user entry first and its
\* assistant entry second, and no step that keeps the entries a transcript
\* has (any step but a clear or an expiry that removes them) takes a
\* well-formed transcript to one that is not.
C17_PushesKeepTranscriptsBalanced ==
    /\ [](\A r \in Reqs :
            /\ Len(appended[r]) <= 2
            /\ Len(appended[r]) >= 1 => Entries(appended[r])[1].role = "user"
            /\ Len(appended[r]) = 2 =>
                   Entries(appended[r])[2].role = "assistant")
    /\ [][\A s \in Sessions :
              (IsPrefix(store[s], store'[s]) /\ WellFormed(s))
                  => WellFormed(s)']_vars

\* C17 witness: the transcript of a session holds the four entries of two
\* turns that overlapped and is balanced.
C17_Witness ==
    \E s \in Sessions :
        /\ Len(store[s]) = 4
        /\ RoleCount(store[s], "assistant", 4) = 2
        /\ Entries(store[s])[2].role = "user"
        /\ WellFormed(s)

\* C18: every transcript key that exists in the store carries an expiration
\* of at most 3600 seconds (so that expiry eventually removes it).
C18_EveryKeyCarriesExpiration ==
    \A s \in Sessions :
        store[s] # <<>> => (ttl[s] # NoTTL /\ ttl[s] \in 1..TTL_SECONDS)

\* Every session but a keeps its transcript and its expiration in this step.
OthersUnchanged(a) ==
    \A b \in Sessions \ {a} : store'[b] = store[b] /\ ttl'[b] = ttl[b]

\* C19: sessions are isolated: a step of a /chat request on session a, a
\* get_session_history of a and a clear_session_history of a leave the
\* transcript and the expiration of every other session unchanged.
C19_SessionsAreIsolated ==
    [][/\ \A r \in Reqs :
              pc'[r] # pc[r] =>
                  OthersUnchanged(IF pc[r] = "idle" THEN x_session_id'[r]
                                                   ELSE x_session_id[r])
       /\ reply'.op = "chat" => OthersUnchanged(reply'.x_session_id)
       /\ reply'.op \in {"history", "clear"} =>
              IF reply'.raised = "RedisError"
                  THEN store' = store /\ ttl' = ttl
                  ELSE OthersUnchanged(reply'.session_id)]_vars

\* C19 witness: a clear has just deleted the key of one session while
\* another session holds a transcript with an expiration.
C19_Witness ==
    /\ reply.op = "clear" /\ reply.status = 200 /\ reply.deleted = 1
    /\ \E b \in Sessions \ {reply.session_id} :
           /\ Len(store[b]) >= 2
           /\ ttl[b] # NoTTL

====
